---- MODULE Spec2Model ----
(***************************************************************************)
(* Model of the table archiving tool (db-archive).                         *)
(*                                                                         *)
(* archiveTable (src/export_csv.go:258-368) is a sequence of synchronous   *)
(* database statements.  Each statement is one action of the model, and    *)
(* the database is a function from the names of the existing tables to     *)
(* their sets of rows.  A statement fails when the database cannot         *)
(* execute it (missing table, name already taken) and may fail for any     *)
(* other reason (lost connection, constraint violation ...).               *)
(***************************************************************************)
EXTENDS Integers, Sequences, FiniteSets, TLC

\* ------------------------------------------------------------------ bounds
\* Largest number of rows of the table before the run.
MaxRows == 3
\* Dates are 1..MaxDate; the cutoff ranges over 1..MaxDate+1.
MaxDate == 3
\* How far the second reading of the clock (archiveTable, line 301) may be
\* after the first (countRecords, line 386), in date units.
MaxDrift == 1

\* ------------------------------------------------------------- the tables
\* config.Table and the two names archiveTable derives from it and from
\* the start date (lines 259-261).
Table == "orders"
newTableName == "orders_20251001"
archiveTableName == "orders_archive_20251001"
TableNames == {Table, newTableName, archiveTableName}

\* The runs of the tool.  MainRun is the run the single-run specification
\* executes.
MainRun == "run1"
Runs == {MainRun}

RowIds == 1..MaxRows
\* A row that is in a table left over from an earlier run.
StaleRow == MaxRows + 1
\* The value of a row's date column: {} is SQL NULL, {d} is the date d.
DateValues == {{}} \cup {{d} : d \in 1..MaxDate}
Cutoffs == 1..(MaxDate + 1)

VARIABLES
  db,            \* existing table name -> set of rows
  db0,           \* the database before the run (never changes)
  rowDate,       \* row -> value of its date column (rows are copied verbatim)
  dateColumns,   \* the date/time typed columns of Table
  config,        \* run -> [DryRun, ExportSQL, ExportCSV]
  pc,            \* run -> the statement the run issues next
  archiveCount,  \* run -> archiveCount of archiveTable
  keepCount,     \* run -> keepCount of archiveTable
  cutoffCount,   \* run -> cutoffDate of countRecords (line 386)
  cutoffDate,    \* run -> cutoffDate of archiveTable (line 301)
  issued,        \* run -> the statements issued so far, in order
  ret,           \* run -> "running", "nil" or the error archiveTable returns
  logged,        \* run -> the error and dry-run lines logged, in order
  det,           \* detectDateColumn: the columns of a table and the calls made
  ddl,           \* modifyCreateStatement: a CREATE TABLE statement and its rewriting
  csv,           \* exportTableToCSV: the state of one export
  sql,           \* exportTableToSQL: the state of one export
  format         \* formatCSVValue, formatSQLValue: a value and its two texts

\* The variables of archiveTable, and those of the functions that are
\* checked on their own.
runVars == <<db, db0, rowDate, dateColumns, config, pc, archiveCount, keepCount,
             cutoffCount, cutoffDate, issued, ret, logged>>
vars == <<runVars, det, ddl, csv, sql, format>>

\* The functions checked on their own are not running.
Idle == [pc |-> "idle"]

\* --------------------------------------------------------- SQL statements
Exists(d, t) == t \in DOMAIN d

\* WHERE `dateColumn` < ?  (NULL compares as unknown: the row is not selected)
IsOld(row, cutoff) == \E v \in rowDate[row] : v < cutoff
\* WHERE `dateColumn` >= ?
IsKept(row, cutoff) == \E v \in rowDate[row] : v >= cutoff

\* SELECT COUNT(*) FROM t WHERE dateColumn < ?
CountOld(d, t, cutoff) == Cardinality({row \in d[t] : IsOld(row, cutoff)})
\* SELECT COUNT(*) FROM t WHERE dateColumn >= ?
CountKept(d, t, cutoff) == Cardinality({row \in d[t] : IsKept(row, cutoff)})
\* SELECT COUNT(*) FROM t
getTableCount(d, t) == Cardinality(d[t])

\* CREATE TABLE t (...)
CreateTable(d, t) == d @@ (t :> {})
\* The rows INSERT INTO dst SELECT * FROM src WHERE dateColumn < ? selects.
SelectedRows(d, src, cutoff) == {row \in d[src] : IsOld(row, cutoff)}
\* Mutant of copyOldRecords: the rows at or after the cutoff are copied.
copyOldRecords_Kept(d, src, dst, cutoff) ==
  [d EXCEPT ![dst] = @ \cup {row \in d[src] : IsKept(row, cutoff)}]
\* INSERT INTO dst SELECT * FROM src WHERE dateColumn < ?
copyOldRecords(d, src, dst, cutoff) ==
  [d EXCEPT ![dst] = @ \cup SelectedRows(d, src, cutoff)]
\* DELETE FROM t WHERE dateColumn < ?
deleteOldRecords(d, t, cutoff) ==
  [d EXCEPT ![t] = {row \in @ : ~IsOld(row, cutoff)}]
\* Mutant of RenameTable: the table is copied under the new name and stays
\* under the old one.
RenameTable_KeepSource(d, from, to) ==
  [t \in DOMAIN d \cup {to} |-> IF t = to THEN d[from] ELSE d[t]]
\* RENAME TABLE from TO to
RenameTable(d, from, to) ==
  [t \in (DOMAIN d \ {from}) \cup {to} |-> IF t = to THEN d[from] ELSE d[t]]
\* Mutant of DropTable: the statement drops nothing.
DropTable_Keep(d, t) == d
\* DROP TABLE IF EXISTS t
DropTable(d, t) == [u \in DOMAIN d \ {t} |-> d[u]]

\* ------------------------------------------------------------------- Init
Init ==
  /\ \E n \in 0..MaxRows, pre \in SUBSET TableNames :
       /\ rowDate \in [1..n -> DateValues]
       /\ db = [t \in pre |-> IF t = Table THEN 1..n ELSE {StaleRow}]
       /\ (Table \notin pre => n = 0)
  /\ db0 = db
  /\ dateColumns \in {{}, {"created_at"}}
  /\ config \in [Runs -> [DryRun : BOOLEAN, ExportSQL : BOOLEAN, ExportCSV : BOOLEAN]]
  /\ pc = [r \in Runs |-> "getCreateTable"]
  /\ archiveCount = [r \in Runs |-> 0]
  /\ keepCount = [r \in Runs |-> 0]
  /\ cutoffCount = [r \in Runs |-> 0]
  /\ cutoffDate = [r \in Runs |-> 0]
  /\ issued = [r \in Runs |-> <<>>]
  /\ ret = [r \in Runs |-> "running"]
  /\ logged = [r \in Runs |-> <<>>]
  /\ det = Idle /\ ddl = Idle /\ csv = Idle /\ sql = Idle /\ format = Idle

\* ---------------------------------------------------------------- helpers
\* The run issues statement op on the tables on, with outcome ok.
Issue(r, op, on, ok) ==
  issued' = [issued EXCEPT ![r] = Append(@, [op |-> op, on |-> on, ok |-> ok])]
\* The run writes a log line.
Log(r, line) == logged' = [logged EXCEPT ![r] = Append(@, line)]
\* archiveTable returns e.
Return(r, e) == /\ pc' = [pc EXCEPT ![r] = "done"]
                /\ ret' = [ret EXCEPT ![r] = e]
Goto(r, l) == /\ pc' = [pc EXCEPT ![r] = l]
              /\ UNCHANGED ret

inputs == <<db0, rowDate, dateColumns, config, det, ddl, csv, sql, format>>
counts == <<archiveCount, keepCount, cutoffCount>>

\* detectDateColumn finds a column: the table has a date/time typed column.
HasDateColumn(cols) == cols # {}
\* Mutant of NoRecordsToArchive: the test is for a negative count.
NoRecordsToArchive_Negative(a) == a < 0
\* archiveTable line 279: nothing to archive.
NoRecordsToArchive(a) == a = 0
\* Mutants of CountMismatch: no verification, and a verification that
\* lets a short copy pass.
CountMismatch_Never(copiedCount, keep) == FALSE
CountMismatch_Greater(copiedCount, keep) == copiedCount > keep
\* archiveTable line 315: the verification fails.
CountMismatch(copiedCount, keep) == copiedCount # keep
\* The lines a dry run logs (lines 285-288).
DryRunReport(a) ==
  <<"INFO", "Would create archive table", newTableName,
    "Would move records to archive", a,
    "Would rename original table to", archiveTableName>>
\* Mutants of AfterCount: the CREATE TABLE is skipped, and the dry run flag
\* is not looked at.
AfterCount_SkipCreate(r, a) ==
  IF NoRecordsToArchive(a) THEN Return(r, "nil") /\ UNCHANGED logged
  ELSE IF config[r].DryRun THEN Return(r, "nil") /\ Log(r, DryRunReport(a))
  ELSE Goto(r, "copy") /\ UNCHANGED logged
AfterCount_IgnoreDryRun(r, a) ==
  IF NoRecordsToArchive(a) THEN Return(r, "nil") /\ UNCHANGED logged
  ELSE Goto(r, "create") /\ UNCHANGED logged
\* What archiveTable does after the count (lines 279-292).
AfterCount(r, a) ==
  IF NoRecordsToArchive(a) THEN Return(r, "nil") /\ UNCHANGED logged
  ELSE IF config[r].DryRun THEN Return(r, "nil") /\ Log(r, DryRunReport(a))
  ELSE Goto(r, "create") /\ UNCHANGED logged
\* Mutant of AfterSwap: the SQL export does not depend on its flag.
AfterSwap_AlwaysExportSQL(r) == Goto(r, "exportSQL")
\* What archiveTable does after the second rename (lines 345-367).
AfterSwap(r) ==
  IF config[r].ExportSQL THEN Goto(r, "exportSQL")
  ELSE IF config[r].ExportCSV THEN Goto(r, "exportCSV")
  ELSE Return(r, "nil")
\* What archiveTable does after the SQL export (lines 356-367).
AfterExportSQL(r) ==
  IF config[r].ExportCSV THEN Goto(r, "exportCSV") ELSE Return(r, "nil")

\* ---------------------------------------------------------------- actions
\* Step 1 (lines 263-268): SHOW CREATE TABLE.
StepGetCreateTable(r) ==
  /\ pc[r] = "getCreateTable"
  /\ \E ok \in BOOLEAN :
       /\ ok => Exists(db, Table)
       /\ Issue(r, "SHOW CREATE TABLE", <<Table>>, ok)
       /\ IF ok THEN Goto(r, "detectDateColumn")
                ELSE Return(r, "failed to get CREATE TABLE")
  /\ UNCHANGED <<db, inputs, counts, cutoffDate, logged>>

\* Mutant of StepDetectDateColumn: the error of detectDateColumn is
\* dropped and the run goes on to the counts.
StepDetectDateColumn_Continue(r) ==
  /\ pc[r] = "detectDateColumn"
  /\ \E ok \in BOOLEAN :
       /\ ok => (Exists(db, Table) /\ HasDateColumn(dateColumns))
       /\ Issue(r, "SHOW COLUMNS", <<Table>>, ok)
       /\ Goto(r, "countArchive")
  /\ UNCHANGED <<db, inputs, counts, cutoffDate, logged>>

\* Step 2, countRecords lines 379-382: detectDateColumn.
StepDetectDateColumn(r) ==
  /\ pc[r] = "detectDateColumn"
  /\ \E ok \in BOOLEAN :
       /\ ok => (Exists(db, Table) /\ HasDateColumn(dateColumns))
       /\ Issue(r, "SHOW COLUMNS", <<Table>>, ok)
       /\ IF ok THEN Goto(r, "countArchive")
                ELSE Return(r, "failed to count records")
  /\ UNCHANGED <<db, inputs, counts, cutoffDate, logged>>

\* Step 2, countRecords lines 386-394: the clock is read, and the rows
\* older than the cutoff are counted.
StepCountArchive(r) ==
  /\ pc[r] = "countArchive"
  /\ \E c \in Cutoffs, ok \in BOOLEAN :
       /\ ok => Exists(db, Table)
       /\ Issue(r, "COUNT OLD", <<Table>>, ok)
       /\ cutoffCount' = [cutoffCount EXCEPT ![r] = c]
       /\ IF ok
            THEN /\ archiveCount' = [archiveCount EXCEPT ![r] = CountOld(db, Table, c)]
                 /\ Goto(r, "countKeep")
            ELSE /\ UNCHANGED archiveCount
                 /\ Return(r, "failed to count records")
  /\ UNCHANGED <<db, inputs, keepCount, cutoffDate, logged>>

\* Step 2, countRecords lines 396-403, and archiveTable lines 277-290:
\* the rows at or after the cutoff are counted; a run with nothing to
\* archive and a dry run end here.
StepCountKeep(r) ==
  /\ pc[r] = "countKeep"
  /\ \E ok \in BOOLEAN :
       /\ ok => Exists(db, Table)
       /\ Issue(r, "COUNT KEEP", <<Table>>, ok)
       /\ IF ok
            THEN /\ keepCount' = [keepCount EXCEPT ![r] = CountKept(db, Table, cutoffCount[r])]
                 /\ UNCHANGED archiveCount
                 /\ AfterCount(r, archiveCount[r])
            ELSE \* countRecords returns 0, 0, "", err
                 /\ keepCount' = [keepCount EXCEPT ![r] = 0]
                 /\ archiveCount' = [archiveCount EXCEPT ![r] = 0]
                 /\ UNCHANGED logged
                 /\ Return(r, "failed to count records")
  /\ UNCHANGED <<db, inputs, cutoffCount, cutoffDate>>

\* Step 3 (lines 292-297): CREATE TABLE newTableName.
StepCreate(r) ==
  /\ pc[r] = "create"
  /\ \E ok \in BOOLEAN :
       /\ ok => ~Exists(db, newTableName)
       /\ Issue(r, "CREATE TABLE", <<newTableName>>, ok)
       /\ IF ok THEN /\ db' = CreateTable(db, newTableName)
                     /\ Goto(r, "copy")
                ELSE /\ UNCHANGED db
                     /\ Return(r, "failed to create new table")
  /\ UNCHANGED <<inputs, counts, cutoffDate, logged>>

\* Step 4 (lines 299-303): the clock is read again, and INSERT ... SELECT
\* copies the rows older than that cutoff.  A failed statement leaves any
\* part of its rows behind (none under a transactional engine).
StepCopy(r) ==
  /\ pc[r] = "copy"
  /\ \E c \in cutoffCount[r]..(cutoffCount[r] + MaxDrift), ok \in BOOLEAN :
       /\ ok => (Exists(db, Table) /\ Exists(db, newTableName))
       /\ Issue(r, "INSERT SELECT", <<newTableName, Table>>, ok)
       /\ cutoffDate' = [cutoffDate EXCEPT ![r] = c]
       /\ IF ok
            THEN /\ db' = copyOldRecords(db, Table, newTableName, c)
                 /\ UNCHANGED logged
                 /\ Goto(r, "verify")
            ELSE /\ IF Exists(db, Table) /\ Exists(db, newTableName)
                      THEN \E part \in SUBSET SelectedRows(db, Table, c) :
                             db' = [db EXCEPT ![newTableName] = @ \cup part]
                      ELSE UNCHANGED db
                 /\ Log(r, <<"ERROR", "Failed to copy records, dropping new table">>)
                 /\ Goto(r, "dropNewTable")
  /\ UNCHANGED <<inputs, counts>>

\* Step 4 (lines 304-305): DROP TABLE IF EXISTS newTableName; the error
\* executeSQL returns is dropped (executeSQL itself writes the INFO line
\* "Executing SQL" before the statement and nothing after it), and the
\* copy failure is returned.
StepDropNewTable(r) ==
  /\ pc[r] = "dropNewTable"
  /\ \E ok \in BOOLEAN :
       /\ Issue(r, "DROP TABLE", <<newTableName>>, ok)
       /\ db' = IF ok THEN DropTable(db, newTableName) ELSE db
  /\ Return(r, "failed to copy records")
  /\ UNCHANGED <<inputs, counts, cutoffDate, logged>>

\* Step 5 (lines 308-320): the rows of the new table are counted and
\* compared.
StepVerify(r) ==
  /\ pc[r] = "verify"
  /\ \E ok \in BOOLEAN :
       /\ ok => Exists(db, newTableName)
       /\ Issue(r, "COUNT", <<newTableName>>, ok)
       /\ IF ~ok
            THEN /\ UNCHANGED logged
                 /\ Return(r, "failed to verify copied records")
            ELSE IF CountMismatch(getTableCount(db, newTableName), keepCount[r])
            THEN /\ Log(r, <<"ERROR", "Record count mismatch!">>)
                 /\ Return(r, "record count mismatch")
            ELSE /\ UNCHANGED logged
                 /\ Goto(r, "delete")
  /\ UNCHANGED <<db, inputs, counts, cutoffDate>>

\* Step 6 (lines 322-326): DELETE FROM Table the rows older than the
\* cutoff of step 4.  A failed statement has removed any part of them.
StepDelete(r) ==
  /\ pc[r] = "delete"
  /\ \E ok \in BOOLEAN :
       /\ ok => Exists(db, Table)
       /\ Issue(r, "DELETE", <<Table>>, ok)
       /\ IF ok
            THEN /\ db' = deleteOldRecords(db, Table, cutoffDate[r])
                 /\ Goto(r, "renameOriginal")
            ELSE /\ IF Exists(db, Table)
                      THEN \E part \in SUBSET SelectedRows(db, Table, cutoffDate[r]) :
                             db' = [db EXCEPT ![Table] = @ \ part]
                      ELSE UNCHANGED db
                 /\ Return(r, "failed to delete old records")
  /\ UNCHANGED <<inputs, counts, cutoffDate, logged>>

\* Mutant of StepRenameOriginal: a failed rename goes on to the DROP of the
\* new table.
StepRenameOriginal_Drop(r) ==
  /\ pc[r] = "renameOriginal"
  /\ \E ok \in BOOLEAN :
       /\ ok => (Exists(db, Table) /\ ~Exists(db, archiveTableName))
       /\ Issue(r, "RENAME", <<Table, archiveTableName>>, ok)
       /\ IF ok THEN /\ db' = RenameTable(db, Table, archiveTableName)
                     /\ Goto(r, "renameNew")
                ELSE /\ UNCHANGED db
                     /\ Goto(r, "dropNewTable")
  /\ UNCHANGED <<inputs, counts, cutoffDate, logged>>

\* Mutant of StepRenameOriginal: the rename succeeds onto an existing
\* archive table.
StepRenameOriginal_Overwrite(r) ==
  /\ pc[r] = "renameOriginal"
  /\ \E ok \in BOOLEAN :
       /\ ok => Exists(db, Table)
       /\ Issue(r, "RENAME", <<Table, archiveTableName>>, ok)
       /\ IF ok THEN /\ db' = RenameTable(db, Table, archiveTableName)
                     /\ Goto(r, "renameNew")
                ELSE /\ UNCHANGED db
                     /\ Return(r, "failed to rename table")
  /\ UNCHANGED <<inputs, counts, cutoffDate, logged>>

\* Step 7 (lines 328-333): RENAME TABLE Table TO archiveTableName.
StepRenameOriginal(r) ==
  /\ pc[r] = "renameOriginal"
  /\ \E ok \in BOOLEAN :
       /\ ok => (Exists(db, Table) /\ ~Exists(db, archiveTableName))
       /\ Issue(r, "RENAME", <<Table, archiveTableName>>, ok)
       /\ IF ok THEN /\ db' = RenameTable(db, Table, archiveTableName)
                     /\ Goto(r, "renameNew")
                ELSE /\ UNCHANGED db
                     /\ Return(r, "failed to rename table")
  /\ UNCHANGED <<inputs, counts, cutoffDate, logged>>

\* Step 8 (lines 335-342): RENAME TABLE newTableName TO Table.
StepRenameNew(r) ==
  /\ pc[r] = "renameNew"
  /\ \E ok \in BOOLEAN :
       /\ ok => (Exists(db, newTableName) /\ ~Exists(db, Table))
       /\ Issue(r, "RENAME", <<newTableName, Table>>, ok)
       /\ IF ok THEN /\ db' = RenameTable(db, newTableName, Table)
                     /\ AfterSwap(r)
                ELSE /\ UNCHANGED db
                     /\ Return(r, "failed to rename new table")
  /\ UNCHANGED <<inputs, counts, cutoffDate, logged>>

\* Mutant of StepExportSQL: a failed export fails the run.
StepExportSQL_FailsRun(r) ==
  /\ pc[r] = "exportSQL"
  /\ \E ok \in BOOLEAN :
       /\ ok => Exists(db, archiveTableName)
       /\ Issue(r, "EXPORT SQL", <<archiveTableName>>, ok)
       /\ IF ok THEN UNCHANGED logged /\ AfterExportSQL(r)
                ELSE /\ Log(r, <<"ERROR", "Failed to export SQL">>)
                     /\ Return(r, "failed to export SQL")
  /\ UNCHANGED <<db, inputs, counts, cutoffDate>>

\* Step 9a (lines 346-354): exportTableToSQL on the archive table; its
\* error is logged only.
StepExportSQL(r) ==
  /\ pc[r] = "exportSQL"
  /\ \E ok \in BOOLEAN :
       /\ ok => Exists(db, archiveTableName)
       /\ Issue(r, "EXPORT SQL", <<archiveTableName>>, ok)
       /\ IF ok THEN UNCHANGED logged
                ELSE Log(r, <<"ERROR", "Failed to export SQL">>)
  /\ AfterExportSQL(r)
  /\ UNCHANGED <<db, inputs, counts, cutoffDate>>

\* Step 9b (lines 356-367): exportTableToCSV on the archive table; its
\* error is logged only.
StepExportCSV(r) ==
  /\ pc[r] = "exportCSV"
  /\ \E ok \in BOOLEAN :
       /\ ok => Exists(db, archiveTableName)
       /\ Issue(r, "EXPORT CSV", <<archiveTableName>>, ok)
       /\ IF ok THEN UNCHANGED logged
                ELSE Log(r, <<"ERROR", "Failed to export CSV">>)
  /\ Return(r, "nil")
  /\ UNCHANGED <<db, inputs, counts, cutoffDate>>

\* One statement of run r.
archiveTable(r) ==
  \/ StepGetCreateTable(r)
  \/ StepDetectDateColumn(r)
  \/ StepCountArchive(r)
  \/ StepCountKeep(r)
  \/ StepCreate(r)
  \/ StepCopy(r)
  \/ StepDropNewTable(r)
  \/ StepVerify(r)
  \/ StepDelete(r)
  \/ StepRenameOriginal(r)
  \/ StepRenameNew(r)
  \/ StepExportSQL(r)
  \/ StepExportCSV(r)

Next == \E r \in Runs : archiveTable(r)
Spec == Init /\ [][Next]_vars

\* ------------------------------------------------------- state predicates
\* Run r issued statement op (whatever its outcome).
Issued(r, op) == \E i \in DOMAIN issued[r] : issued[r][i].op = op
\* Run r issued statement op and it succeeded.
Succeeded(r, op) ==
  \E i \in DOMAIN issued[r] : issued[r][i].op = op /\ issued[r][i].ok
\* Run r issued statement op and it failed.
Failed(r, op) ==
  \E i \in DOMAIN issued[r] : issued[r][i].op = op /\ ~issued[r][i].ok
\* No statement of run r failed.
NoStatementFailed(r) == \A i \in DOMAIN issued[r] : issued[r][i].ok
\* Both renames of run r succeeded.
Swapped(r) ==
  \E i \in DOMAIN issued[r] :
    /\ issued[r][i].op = "RENAME"
    /\ issued[r][i].on[1] = newTableName
    /\ issued[r][i].ok
\* archiveTable has returned nil.
ReturnedNil(r) == pc[r] = "done" /\ ret[r] = "nil"
\* The rows of table t, none when there is no such table.
RowsOf(d, t) == IF Exists(d, t) THEN d[t] ELSE {}
\* The rows of the table before the run, by their age at cutoff c.
OldRows0(c) == {row \in RowsOf(db0, Table) : IsOld(row, c)}
KeptRows0(c) == {row \in RowsOf(db0, Table) : IsKept(row, c)}
NullRows0 == {row \in RowsOf(db0, Table) : rowDate[row] = {}}

\* ------------------------------------------------------------------ claims
\* C1: after a non-simulated run that returns success with archiveCount > 0,
\* the table named Table holds exactly the pre-run rows at or after the
\* cutoff and the table named archiveTableName exactly the pre-run rows
\* older than the cutoff.
C1_KeptInOriginalOldInArchive ==
  (ReturnedNil(MainRun) /\ ~config[MainRun].DryRun /\ archiveCount[MainRun] > 0)
    => /\ Exists(db, Table) /\ Exists(db, archiveTableName)
       /\ db[Table] = KeptRows0(cutoffCount[MainRun])
       /\ db[archiveTableName] = OldRows0(cutoffCount[MainRun])

\* C2 as stated: after a successful non-simulated run the row count of
\* Table is keepCount and the row count of the archive table is
\* archiveCount.
C2_CountsAsStated ==
  (ReturnedNil(MainRun) /\ ~config[MainRun].DryRun)
    => /\ Cardinality(RowsOf(db, Table)) = keepCount[MainRun]
       /\ (Swapped(MainRun) =>
             Cardinality(RowsOf(db, archiveTableName)) = archiveCount[MainRun])

\* C2 amended: after a successful non-simulated run that archived
\* (archiveCount > 0) both renames are done, the row count of Table is
\* keepCount and the row count of the archive table is archiveCount plus
\* the number of pre-run rows whose date is NULL (the pre-run row count
\* less keepCount); after one that had nothing to archive the row count of
\* Table is keepCount plus that number and the archive table is as it was.
C2_CountsAfterRun ==
  (ReturnedNil(MainRun) /\ ~config[MainRun].DryRun)
    => IF archiveCount[MainRun] > 0
         THEN /\ Swapped(MainRun)
              /\ Cardinality(RowsOf(db, Table)) = keepCount[MainRun]
              /\ Cardinality(RowsOf(db, archiveTableName))
                   = archiveCount[MainRun] + Cardinality(NullRows0)
              /\ Cardinality(RowsOf(db, archiveTableName))
                   = Cardinality(RowsOf(db0, Table)) - keepCount[MainRun]
         ELSE /\ Cardinality(RowsOf(db, Table))
                   = keepCount[MainRun] + Cardinality(NullRows0)
              /\ Exists(db, archiveTableName) = Exists(db0, archiveTableName)
              /\ RowsOf(db, archiveTableName) = RowsOf(db0, archiveTableName)
C2_Witness ==
  /\ ReturnedNil(MainRun) /\ Swapped(MainRun)
  /\ NullRows0 # {}

\* C3: a non-simulated run with archiveCount > 0 in which no statement
\* fails passes the verification and ends Swapped, returning success.
C3_RunWithoutFailureSwaps ==
  (pc[MainRun] = "done" /\ ~config[MainRun].DryRun /\ archiveCount[MainRun] > 0
     /\ NoStatementFailed(MainRun))
    => Swapped(MainRun) /\ ret[MainRun] = "nil"

\* The rows the copy put in the new table: they are under the name
\* newTableName until the second rename, and under the name Table after it.
CopiedRows(r) ==
  IF Swapped(r) THEN RowsOf(db, Table) ELSE RowsOf(db, newTableName)
NoDeleteNoRename(r) == ~Issued(r, "DELETE") /\ ~Issued(r, "RENAME")

Pipeline ==
  <<"SHOW CREATE TABLE", "SHOW COLUMNS", "COUNT OLD", "COUNT KEEP",
    "CREATE TABLE", "INSERT SELECT", "COUNT", "DELETE", "RENAME", "RENAME">>
\* The exports the flags of run r ask for, in the order of archiveTable.
ExportsOf(r) ==
  (IF config[r].ExportSQL THEN <<"EXPORT SQL">> ELSE <<>>)
    \o (IF config[r].ExportCSV THEN <<"EXPORT CSV">> ELSE <<>>)
OpsIssued(r) == [i \in 1..Len(issued[r]) |-> issued[r][i].op]
IsPrefix(s, t) == Len(s) <= Len(t) /\ SubSeq(t, 1, Len(s)) = s

C6_CopyFailureAsStated ==
  (Failed(MainRun, "INSERT SELECT") /\ pc[MainRun] = "done")
    => /\ ~Exists(db, newTableName)
       /\ Exists(db, Table) /\ db[Table] = db0[Table]
       /\ NoDeleteNoRename(MainRun)
       /\ ret[MainRun] = "failed to copy records"

\* C6 amended: if the copy fails, the run issues the DROP of the new table
\* and, when that DROP succeeds, the new table no longer exists when the
\* run has ended; in every case Table has its pre-run rows, no DELETE or
\* RENAME was issued and the copy failure is returned.
C6_CopyFailureCompensated ==
  (Failed(MainRun, "INSERT SELECT") /\ pc[MainRun] = "done")
    => /\ Issued(MainRun, "DROP TABLE")
       /\ Succeeded(MainRun, "DROP TABLE") => ~Exists(db, newTableName)
       /\ Exists(db, Table) /\ db[Table] = db0[Table]
       /\ NoDeleteNoRename(MainRun)
       /\ ret[MainRun] = "failed to copy records"
C6_Witness ==
  /\ ret[MainRun] = "failed to copy records"
  /\ Succeeded(MainRun, "DROP TABLE")
  /\ RowsOf(db0, Table) # {}

ReadOnlyStatements ==
  {"SHOW CREATE TABLE", "SHOW COLUMNS", "COUNT OLD", "COUNT KEEP"}
\* Run r has issued nothing but the statements of the inspection and the
\* count, and the database is as it was before the run.
NoSideEffects(r) ==
  /\ \A i \in DOMAIN issued[r] : issued[r][i].op \in ReadOnlyStatements
  /\ db = db0

\* C7: if the count finds archiveCount = 0, the run ends with success,
\* dry run or not, having issued no CREATE, INSERT, DELETE, RENAME or DROP
\* and no export: the database is as it was before the run.
C7_NothingToArchive ==
  (Succeeded(MainRun, "COUNT KEEP") /\ archiveCount[MainRun] = 0)
    => /\ ReturnedNil(MainRun)
       /\ OpsIssued(MainRun) = SubSeq(Pipeline, 1, 4)
       /\ NoSideEffects(MainRun)
C7_Witness ==
  /\ ReturnedNil(MainRun) /\ archiveCount[MainRun] = 0
  /\ ~config[MainRun].DryRun /\ config[MainRun].ExportSQL
  /\ RowsOf(db0, Table) # {}

\* C8: a dry run with archiveCount > 0 logs the planned names and the
\* archive count and ends with success with no further statement: the
\* tables and their rows are as before the run, and no export is issued
\* even with the export flags set.
C8_DryRun ==
  (Succeeded(MainRun, "COUNT KEEP") /\ archiveCount[MainRun] > 0
     /\ config[MainRun].DryRun)
    => /\ ReturnedNil(MainRun)
       /\ OpsIssued(MainRun) = SubSeq(Pipeline, 1, 4)
       /\ NoSideEffects(MainRun)
       /\ logged[MainRun] = <<DryRunReport(archiveCount[MainRun])>>
C8_Witness ==
  /\ ReturnedNil(MainRun) /\ archiveCount[MainRun] > 1
  /\ config[MainRun].DryRun
  /\ config[MainRun].ExportSQL /\ config[MainRun].ExportCSV

\* C9: a failure of the retrieval of the CREATE TABLE statement, of the
\* date column detection or of either count ends the run with an error and
\* without side effects: nothing was created, renamed, dropped, inserted
\* or deleted.
C9_InspectCountFailure ==
  /\ \A op \in ReadOnlyStatements :
       Failed(MainRun, op)
         => /\ pc[MainRun] = "done"
            /\ ret[MainRun] = IF op = "SHOW CREATE TABLE"
                                THEN "failed to get CREATE TABLE"
                                ELSE "failed to count records"
            /\ issued[MainRun][Len(issued[MainRun])].op = op
            /\ NoSideEffects(MainRun)
  /\ ret[MainRun] \in {"failed to get CREATE TABLE", "failed to count records"}
       => NoSideEffects(MainRun)
C9_Witness ==
  /\ Failed(MainRun, "COUNT KEEP")
  /\ RowsOf(db0, Table) # {}
  /\ ~config[MainRun].DryRun

\* The database after both renames: Table holds the rows the copy
\* selected, the archive table the other pre-run rows, and the new name is
\* free again.
SwappedTables(r) ==
  /\ Exists(db, Table) /\ Exists(db, archiveTableName)
  /\ ~Exists(db, newTableName)
  /\ db[Table] = OldRows0(cutoffDate[r])
  /\ db[archiveTableName] = RowsOf(db0, Table) \ OldRows0(cutoffDate[r])
ExportFailureLogged(r, text) ==
  \E i \in DOMAIN logged[r] : logged[r][i] = <<"ERROR", text>>

\* C10: after both renames a failure of the SQL export and/or of the CSV
\* export changes neither the outcome nor the tables: archiveTable
\* returns success, Table and the archive table keep their names and rows,
\* and the failure is logged.
C10_ExportFailureOnlyLogged ==
  /\ Swapped(MainRun)
       => /\ SwappedTables(MainRun)
          /\ ret[MainRun] = IF pc[MainRun] = "done" THEN "nil" ELSE "running"
  /\ Failed(MainRun, "EXPORT SQL")
       => Swapped(MainRun) /\ ExportFailureLogged(MainRun, "Failed to export SQL")
  /\ Failed(MainRun, "EXPORT CSV")
       => Swapped(MainRun) /\ ExportFailureLogged(MainRun, "Failed to export CSV")
C10_Witness ==
  /\ ReturnedNil(MainRun)
  /\ Failed(MainRun, "EXPORT SQL") /\ Failed(MainRun, "EXPORT CSV")

ExportStatements == {"EXPORT SQL", "EXPORT CSV"}
ExportFlag(r, op) ==
  IF op = "EXPORT SQL" THEN config[r].ExportSQL ELSE config[r].ExportCSV

C12_OneCutoff ==
  Issued(MainRun, "INSERT SELECT")
    => cutoffDate[MainRun] = cutoffCount[MainRun]

\* The first rename of run r succeeded.
OriginalRenamed(r) ==
  \E i \in DOMAIN issued[r] :
    /\ issued[r][i].op = "RENAME"
    /\ issued[r][i].on[1] = Table
    /\ issued[r][i].ok
\* The first rename succeeded and the second has not (yet).
BetweenRenames(r) == OriginalRenamed(r) /\ ~Swapped(r)

\* C13: the second rename is issued only after the first succeeded; a
\* table that was there before the run is absent under the name Table
\* exactly between the success of the first rename and that of the second
\* (a failure of the second included), and then the new table and the
\* archive table both exist and the second rename can be executed; when
\* the first rename fails, Table is still there and the second rename is
\* never issued.
C13_RenameWindow ==
  Exists(db0, Table)
    => /\ ~Exists(db, Table) <=> BetweenRenames(MainRun)
       /\ BetweenRenames(MainRun)
            => /\ Exists(db, newTableName) /\ Exists(db, archiveTableName)
               /\ RenameTable(db, newTableName, Table)[Table] = db[newTableName]
               /\ pc[MainRun] = "renameNew"
                    \/ ret[MainRun] = "failed to rename new table"
       /\ Len(issued[MainRun]) >= Len(Pipeline)
            => issued[MainRun][Len(Pipeline) - 1].ok
       /\ ret[MainRun] = "failed to rename table"
            => /\ Exists(db, Table)
               /\ Len(issued[MainRun]) = Len(Pipeline) - 1
C13_Witness ==
  /\ ret[MainRun] = "failed to rename new table"
  /\ ~Exists(db, Table)
  /\ RowsOf(db, newTableName) # {} /\ RowsOf(db, archiveTableName) # {}

\* C14: when the run stops after the verification succeeded and before
\* the DELETE took effect (at the DELETE, or after a failed DELETE that
\* removed nothing), Table and the new table both hold the rows at or
\* after the cutoff.
C14_BothHoldKeptRows ==
  (\/ pc[MainRun] = "delete"
   \/ /\ ret[MainRun] = "failed to delete old records"
      /\ RowsOf(db, Table) = RowsOf(db0, Table))
    => /\ KeptRows0(cutoffCount[MainRun]) \subseteq RowsOf(db, Table)
       /\ KeptRows0(cutoffCount[MainRun]) \subseteq RowsOf(db, newTableName)

\* ======================================================= detectDateColumn
\* archiveTable is not running (the specifications of the single
\* functions).
RunIdle ==
  /\ db = <<>> /\ db0 = <<>> /\ rowDate = <<>> /\ dateColumns = {}
  /\ config = [r \in Runs |-> [DryRun |-> FALSE, ExportSQL |-> FALSE, ExportCSV |-> FALSE]]
  /\ pc = [r \in Runs |-> "idle"]
  /\ archiveCount = [r \in Runs |-> 0] /\ keepCount = [r \in Runs |-> 0]
  /\ cutoffCount = [r \in Runs |-> 0] /\ cutoffDate = [r \in Runs |-> 0]
  /\ issued = [r \in Runs |-> <<>>] /\ ret = [r \in Runs |-> "idle"]
  /\ logged = [r \in Runs |-> <<>>]

\* Number of calls of detectDateColumn on one table.
MaxCalls == 2

\* The priority list of detectDateColumn (line 408).
priorityColumns ==
  <<"smsdate", "request_time", "deli_date", "created_at", "updated_at",
    "req_date", "res_date", "date_created", "created">>
\* The column names of the tables checked: two of the priority list, in
\* the reverse of its order, and two others.
ColumnNames == {"updated_at", "created_at", "sent_on", "status"}
\* The column types of the tables checked, as SHOW COLUMNS prints them.
ColumnTypes ==
  {"datetime", "timestamp", "year(4)", "int(11)", "enum('on_time','late')"}
\* The tables checked: any columns of these names, of any of these types.
Schemas == UNION {[cols -> ColumnTypes] : cols \in SUBSET ColumnNames}

\* Line 424: strings.Contains(strings.ToLower(colType), "date") ||
\* strings.Contains(strings.ToLower(colType), "time").
ContainsDateOrTime(colType) ==
  colType \in {"datetime", "timestamp", "enum('on_time','late')"}
\* Lines 417-427: the map availableColumns.
availableColumns(schema) ==
  {field \in DOMAIN schema : ContainsDateOrTime(schema[field])}
\* Lines 430-434: the positions of the priority list that are available.
PriorityHits(available) ==
  {i \in 1..Len(priorityColumns) : priorityColumns[i] \in available}
Least(S) == CHOOSE i \in S : \A j \in S : i <= j
\* Lines 437-439, `for col := range availableColumns { return col }`: the
\* iteration of a Go map starts at any of its keys.
AnyKey(available) == available
\* detectDateColumn (lines 406-442) after a successful SHOW COLUMNS: the
\* values it can return.
detectDateColumn(schema) ==
  LET available == availableColumns(schema)
      hits == PriorityHits(available)
  IN IF hits # {}
       THEN {[col |-> priorityColumns[Least(hits)], err |-> "nil"]}
     ELSE IF available # {}
       THEN {[col |-> c, err |-> "nil"] : c \in AnyKey(available)}
     ELSE {[col |-> "", err |-> "no suitable date column found"]}

DetectInit ==
  /\ RunIdle
  /\ \E schema \in Schemas : det = [pc |-> "call", schema |-> schema, calls |-> <<>>]
  /\ ddl = Idle /\ csv = Idle /\ sql = Idle /\ format = Idle
\* One call of detectDateColumn: the query of line 411 fails, or the
\* function returns one of its values.
DetectCall ==
  /\ det.pc = "call"
  /\ Len(det.calls) < MaxCalls
  /\ \E res \in detectDateColumn(det.schema) \cup {[col |-> "", err |-> "query failed"]} :
       det' = [det EXCEPT !.calls = Append(@, res)]
  /\ UNCHANGED <<runVars, ddl, csv, sql, format>>
DetectNext == DetectCall
SpecDetect == DetectInit /\ [][DetectNext]_vars

\* The types of the date and time family of the database.
IsDateTimeType(colType) == colType \in {"datetime", "timestamp", "year(4)"}
DateTimeColumns(schema) ==
  {field \in DOMAIN schema : IsDateTimeType(schema[field])}

\* C15: detectDateColumn returns the first name of the priority list that
\* is a column of date/time type; a name of the list whose column is not
\* of date/time type is never returned; and the call fails with "no
\* suitable date column" exactly when the table has no column of
\* date/time type.
C15_FirstPreferredDateTimeColumn ==
  \A k \in DOMAIN det.calls :
    LET res == det.calls[k]
        hits == PriorityHits(DateTimeColumns(det.schema))
    IN res.err # "query failed"
         => /\ hits # {} => res.col = priorityColumns[Least(hits)]
            /\ (res.err = "nil" /\ \E i \in DOMAIN priorityColumns : priorityColumns[i] = res.col)
                 => res.col \in DateTimeColumns(det.schema)
            /\ res.err = "no suitable date column found"
                 <=> DateTimeColumns(det.schema) = {}

\* C16: two calls of detectDateColumn on the same table return the same
\* column.
C16_Deterministic ==
  \A k, l \in DOMAIN det.calls :
    (det.calls[k].err = "nil" /\ det.calls[l].err = "nil")
      => det.calls[k].col = det.calls[l].col

\* ================================================== modifyCreateStatement
\* A CREATE TABLE statement is the sequence of its words and of its
\* back-quoted identifiers, each separated from the next by white space.
\* text and sfx are the characters: sfx is the sequence of suffixes
\* appended to text.  part and decl say what the token is in the
\* structure (decl: the identifier a declaration declares); the function
\* reads neither.
Word(text, part) ==
  [kind |-> "word", text |-> text, sfx |-> <<>>, part |-> part, decl |-> FALSE]
Ident(name, part, decl) ==
  [kind |-> "id", text |-> name, sfx |-> <<>>, part |-> part, decl |-> decl]

\* Line 259: the suffix of the run.
suffix == "20251001"

\* The comments of the column created_at in the structures checked; the
\* last two quote an identifier in back quotes, `idx_old` and `orders`.
Comments == {"none", "order time", "see KEY idx_old", "from CREATE TABLE orders"}
CommentTokens(comment) ==
  CASE comment = "none" -> <<>>
    [] comment = "order time" ->
         <<Word("COMMENT", "column"), Word("'order", "column"), Word("time'", "column")>>
    [] comment = "see KEY idx_old" ->
         <<Word("COMMENT", "column"), Word("'see", "column"), Word("KEY", "column"),
           Ident("idx_old", "column", FALSE), Word("'", "column")>>
    [] OTHER ->
         <<Word("COMMENT", "column"), Word("'from", "column"),
           Word("CREATE TABLE", "column"), Ident(Table, "column", FALSE),
           Word("'", "column")>>
\* The index declarations and the foreign keys a structure checked can
\* have.
IndexDecls ==
  <<[kw |-> "KEY", name |-> "idx_created", col |-> "created_at"],
    [kw |-> "UNIQUE KEY", name |-> "uq_ref", col |-> "ref"],
    [kw |-> "FULLTEXT KEY", name |-> "ft_note", col |-> "note"]>>
ForeignKeys ==
  <<[name |-> "fk_user", col |-> "user_id", ref |-> "users"],
    [name |-> "fk_parent", col |-> "parent_id", ref |-> Table]>>
Structures ==
  [comment : Comments, primary : BOOLEAN,
   indexes : SUBSET DOMAIN IndexDecls, fks : SUBSET DOMAIN ForeignKeys]

HeadTokens ==
  <<Word("CREATE TABLE", "table"), Ident(Table, "table", TRUE), Word("(", "table")>>
ColumnTokens(comment) ==
  <<Ident("id", "column", FALSE), Word("int", "column"),
    Ident("created_at", "column", FALSE), Word("datetime", "column")>>
    \o CommentTokens(comment)
PrimaryTokens ==
  <<Word("PRIMARY KEY", "primary"), Word("(", "primary"),
    Ident("id", "primary", FALSE), Word(")", "primary")>>
IndexTokens(x) ==
  <<Word(x.kw, "index"), Ident(x.name, "index", TRUE), Word("(", "index"),
    Ident(x.col, "index", FALSE), Word(")", "index")>>
ForeignKeyTokens(x) ==
  <<Word("CONSTRAINT", "foreign"), Ident(x.name, "foreign", TRUE),
    Word("FOREIGN KEY", "foreign"), Word("(", "foreign"),
    Ident(x.col, "foreign", FALSE), Word(")", "foreign"),
    Word("REFERENCES", "foreign"), Ident(x.ref, "foreign", FALSE),
    Word("(", "foreign"), Ident("id", "foreign", FALSE), Word(")", "foreign")>>
RECURSIVE IndexesTokens(_, _)
IndexesTokens(chosen, k) ==
  IF k > Len(IndexDecls) THEN <<>>
  ELSE (IF k \in chosen THEN IndexTokens(IndexDecls[k]) ELSE <<>>)
         \o IndexesTokens(chosen, k + 1)
RECURSIVE ForeignKeysTokens(_, _)
ForeignKeysTokens(chosen, k) ==
  IF k > Len(ForeignKeys) THEN <<>>
  ELSE (IF k \in chosen THEN ForeignKeyTokens(ForeignKeys[k]) ELSE <<>>)
         \o ForeignKeysTokens(chosen, k + 1)
\* What SHOW CREATE TABLE prints for a structure (getCreateTable).
ShowCreateTable(structure) ==
  HeadTokens \o ColumnTokens(structure.comment)
    \o (IF structure.primary THEN PrimaryTokens ELSE <<>>)
    \o IndexesTokens(structure.indexes, 1)
    \o ForeignKeysTokens(structure.fks, 1)
    \o <<Word(")", "table"), Word("ENGINE=InnoDB", "table")>>

\* Line 446, strings.Replace(createStmt, "CREATE TABLE `old`",
\* "CREATE TABLE `new`", 1): the first occurrence is replaced.
ReplaceTableName(createStmt, oldName, newName) ==
  LET hits == {i \in 1..(Len(createStmt) - 1) :
                 /\ createStmt[i].kind = "word"
                 /\ createStmt[i].text = "CREATE TABLE"
                 /\ createStmt[i + 1].kind = "id"
                 /\ createStmt[i + 1].text = oldName
                 /\ createStmt[i + 1].sfx = <<>>}
  IN IF hits = {} THEN createStmt
     ELSE [createStmt EXCEPT ![Least(hits) + 1].text = newName]
\* Line 450: the alternative of (KEY|INDEX|UNIQUE KEY) that matches at
\* the end of a word, "" where none does.
indexType(text) ==
  CASE text = "UNIQUE KEY" -> "UNIQUE KEY"
    [] text \in {"KEY", "PRIMARY KEY", "FOREIGN KEY", "FULLTEXT KEY"} -> "KEY"
    [] text = "INDEX" -> "INDEX"
    [] OTHER -> ""
\* Lines 450-467: every match of (KEY|INDEX|UNIQUE KEY)\s+`([^`]+)` has
\* the suffix appended to its identifier, but for an index type
\* PRIMARY KEY (line 459).
RenameIndexes(createStmt, sfx) ==
  [i \in DOMAIN createStmt |->
     IF /\ i > 1
        /\ createStmt[i].kind = "id"
        /\ createStmt[i - 1].kind = "word"
        /\ indexType(createStmt[i - 1].text) \notin {"", "PRIMARY KEY"}
       THEN [createStmt[i] EXCEPT !.sfx = Append(@, sfx)]
       ELSE createStmt[i]]
\* Mutant of RenameConstraints: the constraint identifiers keep their
\* names.
RenameConstraints_Keep(createStmt, sfx) == createStmt
\* Lines 471-480: every match of CONSTRAINT\s+`([^`]+)`\s+FOREIGN KEY has
\* the suffix appended to its identifier.
RenameConstraints(createStmt, sfx) ==
  [i \in DOMAIN createStmt |->
     IF /\ i > 1 /\ i < Len(createStmt)
        /\ createStmt[i].kind = "id"
        /\ createStmt[i - 1].kind = "word"
        /\ createStmt[i - 1].text = "CONSTRAINT"
        /\ createStmt[i + 1].kind = "word"
        /\ createStmt[i + 1].text = "FOREIGN KEY"
       THEN [createStmt[i] EXCEPT !.sfx = Append(@, sfx)]
       ELSE createStmt[i]]
\* modifyCreateStatement (lines 444-483).
modifyCreateStatement(createStmt, oldName, newName, sfx) ==
  RenameConstraints(
    RenameIndexes(ReplaceTableName(createStmt, oldName, newName), sfx), sfx)

DDLInit ==
  /\ RunIdle
  /\ \E structure \in Structures :
       ddl = [pc |-> "call", structure |-> structure,
              createStmt |-> ShowCreateTable(structure), newCreateStmt |-> <<>>]
  /\ det = Idle /\ csv = Idle /\ sql = Idle /\ format = Idle
\* Line 294: newCreateStmt := modifyCreateStatement(createStmt,
\* config.Table, newTableName, suffix).
DDLCall ==
  /\ ddl.pc = "call"
  /\ ddl' = [ddl EXCEPT !.pc = "done",
                        !.newCreateStmt =
                          modifyCreateStatement(ddl.createStmt, Table, newTableName, suffix)]
  /\ UNCHANGED <<runVars, det, csv, sql, format>>
DDLNext == DDLCall
SpecDDL == DDLInit /\ [][DDLNext]_vars

\* The token is the identifier of the table, of an index or of a
\* foreign-key constraint.
DeclaredTable(tok) == tok.decl /\ tok.part = "table"
DeclaredIndexOrConstraint(tok) == tok.decl /\ tok.part \in {"index", "foreign"}

\* C17: modifyCreateStatement replaces the table name once (and no other
\* occurrence of it), appends _<suffix> exactly once to the identifier of
\* every index and unique index and of every foreign-key constraint, and
\* leaves the primary-key declaration as it was.
C17_IdentifiersRenamed ==
  ddl.pc = "done" =>
    LET in == ddl.createStmt
        out == ddl.newCreateStmt
    IN /\ DOMAIN out = DOMAIN in
       /\ \A i \in DOMAIN in :
            /\ out[i].text = IF DeclaredTable(in[i]) THEN newTableName ELSE in[i].text
            /\ DeclaredIndexOrConstraint(in[i]) => out[i].sfx = <<suffix>>
            /\ DeclaredTable(in[i]) => out[i].sfx = <<>>
            /\ in[i].part = "primary" => out[i] = in[i]
C17_Witness ==
  /\ ddl.pc = "done"
  /\ ddl.structure.primary
  /\ ddl.structure.indexes = DOMAIN IndexDecls
  /\ ddl.structure.fks = DOMAIN ForeignKeys
  /\ ddl.structure.comment = "from CREATE TABLE orders"

\* C18: modifyCreateStatement changes declared identifiers only: the
\* column definitions with their comments and the referenced tables and
\* columns of the output are those of the input, and for a structure
\* without index and without foreign key the output differs from the
\* input in the table name only.
C18_OnlyDeclaredIdentifiers ==
  ddl.pc = "done" =>
    LET in == ddl.createStmt
        out == ddl.newCreateStmt
    IN /\ DOMAIN out = DOMAIN in
       /\ \A i \in DOMAIN in :
            (~in[i].decl) => out[i] = in[i]
       /\ (ddl.structure.indexes = {} /\ ddl.structure.fks = {})
            => \A i \in DOMAIN in : (~DeclaredTable(in[i])) => out[i] = in[i]

\* ======================================================= the exporters
\* Rows of the exported table at most.
MaxExportRows == 5
\* batchSize of exportTableToCSV (line 58, 5000), scaled down.
csvBatchSize == 2
\* The rows between two flushes of exportTableToCSV (line 99, 1000),
\* scaled down.
csvFlushEvery == 2
\* The connections the pool replaces during one export at most.
MaxReconnects == 1
\* batchSize of exportTableToSQL (export_sql.go line 90, 1000), scaled
\* down.
sqlBatchSize == 3
\* The tuples of one INSERT statement (export_sql.go line 133, 100),
\* scaled down.
insertBatch == 2

\* The exported table does not change: its rows, in the order a scan
\* returns them.
ExportTables == {[i \in 1..n |-> i] : n \in 0..MaxExportRows}
Min(a, b) == IF a <= b THEN a ELSE b
\* SELECT * FROM t LIMIT batchSize OFFSET offset.
SelectPage(table, batchSize, offset) ==
  SubSeq(table, offset + 1, Min(offset + batchSize, Len(table)))
\* The column names read from INFORMATION_SCHEMA.COLUMNS: rows.Next()
\* returns false at the end of the result and also when the iteration
\* fails, and neither loop asks rows.Err(): the list is whole or cut short.
ColumnLists == {"all", "cut short"}
NoRow == 0

\* ------------------------------------------------------ exportTableToCSV
HeaderRecord(columns) == [kind |-> "header", columns |-> columns, row |-> NoRow]
RowRecord(columns, row) == [kind |-> "row", columns |-> columns, row |-> row]

CSVStart(table) ==
  [pc |-> "create", table |-> table, columns |-> "none", file |-> <<>>,
   offset |-> 0, totalRows |-> 0, rowCount |-> 0, dataRows |-> <<>>,
   values |-> NoRow, queries |-> <<>>, ret |-> "running"]
\* A return: the deferred writer.Flush() and file.Close() leave the
\* records written in the file.
CSVReturn(e) ==
  csv' = [csv EXCEPT !.pc = "done", !.ret = e, !.dataRows = <<>>, !.values = NoRow]
exportFrame == <<runVars, det, ddl, format>>

\* Lines 12-29: the directory and the file.
CSVCreate ==
  /\ csv.pc = "create"
  /\ \/ \E e \in {"failed to create export directory", "failed to create CSV file"} :
          CSVReturn(e)
     \/ csv' = [csv EXCEPT !.pc = "columns"]
  /\ UNCHANGED <<exportFrame, sql>>
\* Lines 34-50: the column names.
CSVColumns ==
  /\ csv.pc = "columns"
  /\ \/ \E e \in {"failed to get column names", "failed to scan column name"} :
          CSVReturn(e)
     \/ \E columns \in ColumnLists :
          csv' = [csv EXCEPT !.pc = "header", !.columns = columns]
  /\ UNCHANGED <<exportFrame, sql>>
\* Lines 52-55: the header row.
CSVHeader ==
  /\ csv.pc = "header"
  /\ \/ CSVReturn("failed to write CSV header")
     \/ csv' = [csv EXCEPT !.pc = "query",
                           !.file = Append(@, HeaderRecord(csv.columns))]
  /\ UNCHANGED <<exportFrame, sql>>
\* Lines 63-78: the query of one page.
CSVQuery ==
  /\ csv.pc = "query"
  /\ \/ csv' = [csv EXCEPT !.pc = "done", !.ret = "failed to query data",
                           !.queries = Append(@, csv.offset)]
     \/ csv' = [csv EXCEPT !.pc = "rows", !.rowCount = 0, !.values = NoRow,
                           !.queries = Append(@, csv.offset),
                           !.dataRows = SelectPage(csv.table, csvBatchSize, csv.offset)]
  /\ UNCHANGED <<exportFrame, sql>>
\* Lines 80-107, dataRows.Next() returns true: one row is scanned (into as
\* many values as column names were read), written, counted, and the
\* writer is flushed every csvFlushEvery rows.
CSVRow ==
  /\ csv.pc = "rows"
  /\ csv.dataRows # <<>>
  /\ \/ CSVReturn("failed to scan row")
     \/ /\ csv.columns = "all"
        /\ \/ CSVReturn("failed to write CSV row")
           \/ /\ (csv.totalRows + 1) % csvFlushEvery = 0
              /\ csv' = [csv EXCEPT !.pc = "done", !.ret = "failed to flush CSV",
                                    !.dataRows = <<>>, !.values = NoRow,
                                    !.file = Append(@, RowRecord(csv.columns, Head(csv.dataRows))),
                                    !.rowCount = @ + 1, !.totalRows = @ + 1]
           \/ csv' = [csv EXCEPT !.file = Append(@, RowRecord(csv.columns, Head(csv.dataRows))),
                                 !.values = Head(csv.dataRows),
                                 !.dataRows = Tail(@),
                                 !.rowCount = @ + 1, !.totalRows = @ + 1]
  /\ UNCHANGED <<exportFrame, sql>>
\* Line 117: rowCount < batchSize.
CSVPageDone(rowCount) == rowCount < csvBatchSize
\* Lines 80 and 109-121, dataRows.Next() returns false, at the end of the
\* page or on an error of the iteration (dataRows.Err() is not read): the
\* page is closed, and the loop ends or goes to the next page.
CSVRowsEnd ==
  /\ csv.pc = "rows"
  /\ csv' = [csv EXCEPT !.dataRows = <<>>, !.values = NoRow,
                        !.pc = IF CSVPageDone(csv.rowCount) THEN "flush" ELSE "query",
                        !.offset = IF CSVPageDone(csv.rowCount) THEN @ ELSE @ + csvBatchSize]
  /\ UNCHANGED <<exportFrame, sql>>
\* Lines 124-131: the final flush.
CSVFlush ==
  /\ csv.pc = "flush"
  /\ \/ CSVReturn("failed to flush CSV")
     \/ CSVReturn("nil")
  /\ UNCHANGED <<exportFrame, sql>>
exportTableToCSV ==
  \/ CSVCreate \/ CSVColumns \/ CSVHeader \/ CSVQuery
  \/ CSVRow \/ CSVRowsEnd \/ CSVFlush

\* ------------------------------------------------------ exportTableToSQL
\* What is written to the dump file: the header, the CREATE TABLE
\* statement, the data header, INSERT statements with their tuples, and
\* the footer with the total of rows.
Written(kind) == [kind |-> kind, tuples |-> <<>>, total |-> 0]
InsertSQL(insertStatements) ==
  [kind |-> "insert", tuples |-> insertStatements, total |-> 0]
Footer(totalRows) == [kind |-> "footer", tuples |-> <<>>, total |-> totalRows]

SQLStart(table) ==
  [pc |-> "create", table |-> table, columns |-> "none", file |-> <<>>,
   locked |-> FALSE, offset |-> 0, totalRows |-> 0, rowCount |-> 0,
   rows |-> <<>>, values |-> NoRow, insertStatements |-> <<>>,
   session |-> 1, queries |-> <<>>, ret |-> "running"]
\* db is a pool (*sql.DB): db.Exec, db.Query and db.QueryRow take the idle
\* connection, or a new one when the idle one is found broken, which the
\* caller does not see.  The session of a closed connection ends, and the
\* server releases its table locks.  The states an export can be in once
\* the pool has handed out the connection of a call:
Connect(s) ==
  {s} \cup (IF s.session <= MaxReconnects
              THEN {[s EXCEPT !.session = @ + 1, !.locked = FALSE]}
              ELSE {})
\* A return: the deferred UNLOCK TABLES (line 75) runs once it is
\* registered, and the rows and buffers of the call are dropped.
SQLReturnFrom(s, e) ==
  sql' = [s EXCEPT !.pc = "done", !.ret = e, !.locked = FALSE,
                   !.rows = <<>>, !.values = NoRow, !.insertStatements = <<>>]
SQLReturn(e) == SQLReturnFrom(sql, e)

\* Lines 12-26: the directory and the file.
SQLCreate ==
  /\ sql.pc = "create"
  /\ \/ \E e \in {"failed to create export directory", "failed to create SQL file"} :
          SQLReturn(e)
     \/ sql' = [sql EXCEPT !.pc = "header"]
  /\ UNCHANGED <<exportFrame, csv>>
\* Lines 30-58: the header of the dump.
SQLHeader ==
  /\ sql.pc = "header"
  /\ \/ SQLReturn("failed to write header")
     \/ sql' = [sql EXCEPT !.pc = "createTable", !.file = Append(@, Written("header"))]
  /\ UNCHANGED <<exportFrame, csv>>
\* Lines 60-68: the CREATE TABLE statement.
SQLCreateTable ==
  /\ sql.pc = "createTable"
  /\ \E s \in Connect(sql) :
       \/ \E e \in {"failed to get CREATE TABLE", "failed to write CREATE TABLE"} :
            SQLReturnFrom(s, e)
       \/ sql' = [s EXCEPT !.pc = "lock", !.file = Append(@, Written("create table"))]
  /\ UNCHANGED <<exportFrame, csv>>
\* Lines 70-75: LOCK TABLES ... READ.
SQLLock ==
  /\ sql.pc = "lock"
  /\ \E s \in Connect(sql) :
       \/ SQLReturnFrom(s, "failed to lock table")
       \/ sql' = [s EXCEPT !.pc = "columns", !.locked = TRUE]
  /\ UNCHANGED <<exportFrame, csv>>
\* Lines 77-81 and getColumnNames (lines 195-213).
SQLColumns ==
  /\ sql.pc = "columns"
  /\ \E s \in Connect(sql) :
       \/ SQLReturnFrom(s, "failed to get column names")
       \/ \E columns \in ColumnLists :
            sql' = [s EXCEPT !.pc = "dataHeader", !.columns = columns]
  /\ UNCHANGED <<exportFrame, csv>>
\* Lines 83-87: the data header.
SQLDataHeader ==
  /\ sql.pc = "dataHeader"
  /\ \/ SQLReturn("failed to write data header")
     \/ sql' = [sql EXCEPT !.pc = "query", !.file = Append(@, Written("data header"))]
  /\ UNCHANGED <<exportFrame, csv>>
\* Lines 95-114: the query of one page.
SQLQuery ==
  /\ sql.pc = "query"
  /\ \E s \in Connect(sql) :
       LET q == [s EXCEPT !.queries =
                   Append(@, [offset |-> s.offset, locked |-> s.locked])]
       IN \/ \E e \in {"failed to query data", "failed to get column types"} :
               SQLReturnFrom(q, e)
          \/ sql' = [q EXCEPT !.pc = "rows", !.rowCount = 0, !.values = NoRow,
                             !.insertStatements = <<>>,
                             !.rows = SelectPage(s.table, sqlBatchSize, s.offset)]
  /\ UNCHANGED <<exportFrame, csv>>
\* Mutant of InsertBatchFull: the buffer is never written inside a page.
InsertBatchFull_Never(n) == FALSE
\* Line 133: len(insertStatements) >= 100.
InsertBatchFull(n) == n >= insertBatch
\* Lines 116-145, rows.Next() returns true: one row is scanned and its
\* tuple appended, and a full buffer is written as one INSERT.
SQLRow ==
  /\ sql.pc = "rows"
  /\ sql.rows # <<>>
  /\ \/ SQLReturn("failed to scan row")
     \/ /\ sql.columns = "all"
        /\ LET tuples == Append(sql.insertStatements, Head(sql.rows))
               next == [sql EXCEPT !.values = Head(sql.rows), !.rows = Tail(@),
                                   !.rowCount = @ + 1, !.totalRows = @ + 1]
           IN IF InsertBatchFull(Len(tuples))
                THEN \/ SQLReturn("failed to write INSERT")
                     \/ sql' = [next EXCEPT !.insertStatements = <<>>,
                                            !.file = Append(@, InsertSQL(tuples))]
                ELSE sql' = [next EXCEPT !.insertStatements = tuples]
  /\ UNCHANGED <<exportFrame, csv>>
\* Line 162: rowCount < batchSize.
SQLPageDone(rowCount) == rowCount < sqlBatchSize
\* Lines 116 and 147-167, rows.Next() returns false, at the end of the
\* page or on an error of the iteration (rows.Err() is not read): the page
\* is closed, the remaining tuples are written as one INSERT, and the loop
\* ends or goes to the next page.
SQLRowsEnd ==
  /\ sql.pc = "rows"
  /\ LET next == [sql EXCEPT !.rows = <<>>, !.values = NoRow,
                             !.insertStatements = <<>>,
                             !.file = IF sql.insertStatements # <<>>
                                        THEN Append(@, InsertSQL(sql.insertStatements))
                                        ELSE @,
                             !.pc = IF SQLPageDone(sql.rowCount) THEN "footer" ELSE "query",
                             !.offset = IF SQLPageDone(sql.rowCount) THEN @
                                        ELSE @ + sqlBatchSize]
     IN \/ sql.insertStatements # <<>> /\ SQLReturn("failed to write INSERT")
        \/ sql' = next
  /\ UNCHANGED <<exportFrame, csv>>
\* Lines 170-192: the footer.
SQLFooter ==
  /\ sql.pc = "footer"
  /\ \/ SQLReturn("failed to write footer")
     \/ sql' = [sql EXCEPT !.pc = "done", !.ret = "nil", !.locked = FALSE,
                           !.file = Append(@, Footer(sql.totalRows))]
  /\ UNCHANGED <<exportFrame, csv>>
exportTableToSQL ==
  \/ SQLCreate \/ SQLHeader \/ SQLCreateTable \/ SQLLock \/ SQLColumns
  \/ SQLDataHeader \/ SQLQuery \/ SQLRow \/ SQLRowsEnd \/ SQLFooter

\* One export of a table that does not change: either exporter is called.
ExportInit ==
  /\ RunIdle
  /\ det = Idle /\ ddl = Idle /\ format = Idle
  /\ \E table \in ExportTables :
       \/ csv = CSVStart(table) /\ sql = Idle
       \/ sql = SQLStart(table) /\ csv = Idle
ExportNext == exportTableToCSV \/ exportTableToSQL
SpecExport == ExportInit /\ [][ExportNext]_vars

Range(seq) == {seq[i] : i \in DOMAIN seq}
\* The rows of the page at an offset (the table holds row i at place i).
RowsOfPage(batchSize, offset) == (offset + 1)..(offset + batchSize)
RowRecordsOf(row) ==
  {i \in DOMAIN csv.file : csv.file[i].kind = "row" /\ csv.file[i].row = row}
InsertsWritten ==
  {i \in DOMAIN sql.file : sql.file[i].kind = "insert"}

\* C19: for a table of N rows that does not change, a finished
\* exportTableToCSV has written N+1 records: the header row first, then
\* every row of the table exactly once.
C19_HeaderAndEveryRowOnce ==
  (csv.pc = "done" /\ csv.ret = "nil")
    => /\ Len(csv.file) = Len(csv.table) + 1
       /\ csv.file[1] = HeaderRecord("all")
       /\ \A row \in Range(csv.table) : Cardinality(RowRecordsOf(row)) = 1

\* C20: at every point of an export the rows of the current query are at
\* most one page, every row held belongs to the current page, the tuples
\* pending in the SQL exporter are at most insertBatch, and every INSERT
\* written has between 1 and insertBatch tuples.
C20_BoundedMemory ==
  /\ csv.pc # "idle"
       => /\ Len(csv.dataRows) <= csvBatchSize
          /\ (Range(csv.dataRows) \cup ({csv.values} \ {NoRow}))
               \subseteq RowsOfPage(csvBatchSize, csv.offset)
  /\ sql.pc # "idle"
       => /\ Len(sql.rows) <= sqlBatchSize
          /\ (Range(sql.rows) \cup ({sql.values} \ {NoRow})
                \cup Range(sql.insertStatements))
               \subseteq RowsOfPage(sqlBatchSize, sql.offset)
          /\ Len(sql.insertStatements) <= insertBatch
          /\ \A i \in InsertsWritten :
               Len(sql.file[i].tuples) \in 1..insertBatch
C20_Witness ==
  /\ sql.pc = "done" /\ sql.ret = "nil"
  /\ sql.offset > 0
  /\ sql.totalRows = Len(sql.table)
  /\ \E i \in InsertsWritten : Len(sql.file[i].tuples) = insertBatch
  /\ \E i \in InsertsWritten : Len(sql.file[i].tuples) < insertBatch

\* The export reads under the lock: from the lock statement to the return.
SQLReading == sql.pc \in {"columns", "dataHeader", "query", "rows", "footer"}

\* C21: exportTableToSQL holds the read lock for the duration of its
\* reads: the lock is taken before the first page query, every page query
\* runs under it, and it is released on every return.
C21_LockHeldDuringReads ==
  sql.pc # "idle"
    => /\ SQLReading => sql.locked
       /\ \A i \in DOMAIN sql.queries : sql.queries[i].locked
       /\ sql.pc = "done" => ~sql.locked

RECURSIVE TuplesWritten(_)
TuplesWritten(file) ==
  IF file = <<>> THEN 0
  ELSE Len(Head(file).tuples) + TuplesWritten(Tail(file))
Kinds(file) == [i \in DOMAIN file |-> file[i].kind]

\* C22: a completed SQL dump is the header, the CREATE TABLE statement,
\* the INSERT statements and the footer, in this order; the total of the
\* footer is the number of tuples of all INSERT statements, which is the
\* number of rows of the table.
C22_CompleteDump ==
  (sql.pc = "done" /\ sql.ret = "nil")
    => LET n == Len(sql.file)
       IN /\ n >= 4
          /\ SubSeq(Kinds(sql.file), 1, 3) = <<"header", "create table", "data header">>
          /\ \A i \in 4..(n - 1) : sql.file[i].kind = "insert"
          /\ sql.file[n].kind = "footer"
          /\ sql.file[n].total = TuplesWritten(sql.file)
          /\ TuplesWritten(sql.file) = Len(sql.table)

\* ======================================= formatCSVValue, formatSQLValue
\* Characters of a text value at most.
MaxTextLen == 2

\* A text is the sequence of its characters.
Digits == <<"0", "1", "2", "3", "4", "5", "6", "7", "8", "9">>
Digit(d) == Digits[d + 1]
Pad2(n) == <<Digit((n \div 10) % 10), Digit(n % 10)>>
Pad4(n) == Pad2(n \div 100) \o Pad2(n % 100)
RECURSIVE Decimal(_)
\* %d and %v of an integer.
Decimal(n) ==
  IF n < 0 THEN <<"-">> \o Decimal(0 - n)
  ELSE IF n < 10 THEN <<Digit(n)>>
  ELSE Decimal(n \div 10) \o <<Digit(n % 10)>>

\* The instants (time.Time) checked, with the zero instant among them.
Instants ==
  [year : {1, 2025}, month : {1, 12}, day : {1, 31}, hour : {0, 23},
   minute : {0, 59}, second : {0, 7}, nsec : {0, 1}]
ZeroInstant ==
  [year |-> 1, month |-> 1, day |-> 1, hour |-> 0,
   minute |-> 0, second |-> 0, nsec |-> 0]
\* Mutant of IsZero: no instant is the zero instant.
IsZero_Never(t) == FALSE
\* time.Time.IsZero.
IsZero(t) == t = ZeroInstant
\* v.Format("2006-01-02 15:04:05").
Format(t) ==
  Pad4(t.year) \o <<"-">> \o Pad2(t.month) \o <<"-">> \o Pad2(t.day) \o <<" ">>
    \o Pad2(t.hour) \o <<":">> \o Pad2(t.minute) \o <<":">> \o Pad2(t.second)

\* The characters of the text values checked, and the texts.
TextChars == {"a", "'", "\\"}
Texts == UNION {[1..n -> TextChars] : n \in 0..MaxTextLen}
Integers64 == {0 - 7, 0, 42}
RECURSIVE ReplaceAll(_, _, _)
\* strings.ReplaceAll for an old text of one character.
ReplaceAll(str, old, new) ==
  IF str = <<>> THEN <<>>
  ELSE (IF Head(str) = old THEN new ELSE <<Head(str)>>)
         \o ReplaceAll(Tail(str), old, new)
Quoted(str) == <<"'">> \o str \o <<"'">>
\* Lines 223-230 and 248-255 of export_sql.go, for the characters checked.
Escape(str) == ReplaceAll(ReplaceAll(str, "\\", <<"\\", "\\">>), "'", <<"\\", "'">>)

\* formatCSVValue (export_csv.go lines 134-161).
formatCSVValue(val) ==
  CASE val.type = "nil" -> <<>>
    [] val.type = "[]byte" -> val.v
    [] val.type = "time.Time" -> IF IsZero(val.v) THEN <<>> ELSE Format(val.v)
    [] val.type = "int64" -> Decimal(val.v)
    [] val.type = "bool" -> IF val.v THEN <<"t", "r", "u", "e">>
                            ELSE <<"f", "a", "l", "s", "e">>
    [] val.type = "string" -> val.v
\* formatSQLValue (export_sql.go lines 215-263).
formatSQLValue(val) ==
  CASE val.type = "nil" -> <<"N", "U", "L", "L">>
    [] val.type = "[]byte" -> Quoted(Escape(val.v))
    [] val.type = "time.Time" -> IF IsZero(val.v) THEN <<"N", "U", "L", "L">>
                                 ELSE Quoted(Format(val.v))
    [] val.type = "int64" -> Decimal(val.v)
    [] val.type = "bool" -> IF val.v THEN <<"1">> ELSE <<"0">>
    [] val.type = "string" -> Quoted(Escape(val.v))

FormatStart(val) ==
  [pc |-> "call", val |-> val, csvDone |-> FALSE, csvText |-> <<>>,
   sqlDone |-> FALSE, sqlText |-> <<>>]
\* One value as rows.Scan stores it in an interface{}.
FormatInit ==
  /\ RunIdle
  /\ det = Idle /\ ddl = Idle /\ csv = Idle /\ sql = Idle
  /\ \/ format = FormatStart([type |-> "nil", v |-> 0])
     \/ \E t \in Instants : format = FormatStart([type |-> "time.Time", v |-> t])
     \/ \E b \in BOOLEAN : format = FormatStart([type |-> "bool", v |-> b])
     \/ \E n \in Integers64 : format = FormatStart([type |-> "int64", v |-> n])
     \/ \E str \in Texts, type \in {"[]byte", "string"} :
          format = FormatStart([type |-> type, v |-> str])
\* Line 89 of export_csv.go: record[i] = formatCSVValue(val).
FormatCSV ==
  /\ format.pc = "call" /\ ~format.csvDone
  /\ format' = [format EXCEPT !.csvDone = TRUE, !.csvText = formatCSVValue(format.val)]
  /\ UNCHANGED <<runVars, det, ddl, csv, sql>>
\* Line 125 of export_sql.go: valueStrings[i] = formatSQLValue(val, ...).
FormatSQL ==
  /\ format.pc = "call" /\ ~format.sqlDone
  /\ format' = [format EXCEPT !.sqlDone = TRUE, !.sqlText = formatSQLValue(format.val)]
  /\ UNCHANGED <<runVars, det, ddl, csv, sql>>
FormatNext == FormatCSV \/ FormatSQL
SpecFormat == FormatInit /\ [][FormatNext]_vars

\* The number a text of digits writes, -1 for any other text.
RECURSIVE NumberOf(_)
NumberOf(str) ==
  IF str = <<>> THEN 0
  ELSE LET d == {k \in 0..9 : Digits[k + 1] = str[Len(str)]}
           rest == NumberOf(SubSeq(str, 1, Len(str) - 1))
       IN IF d = {} \/ rest < 0 THEN 0 - 1
          ELSE 10 * rest + (CHOOSE k \in d : TRUE)
\* The text is YYYY-MM-DD HH:MM:SS of the instant.
IsDateTimeTextOf(str, t) ==
  /\ Len(str) = 19
  /\ str[5] = "-" /\ str[8] = "-" /\ str[11] = " " /\ str[14] = ":" /\ str[17] = ":"
  /\ NumberOf(SubSeq(str, 1, 4)) = t.year
  /\ NumberOf(SubSeq(str, 6, 7)) = t.month
  /\ NumberOf(SubSeq(str, 9, 10)) = t.day
  /\ NumberOf(SubSeq(str, 12, 13)) = t.hour
  /\ NumberOf(SubSeq(str, 15, 16)) = t.minute
  /\ NumberOf(SubSeq(str, 18, 19)) = t.second
NullOrZeroInstant(val) ==
  \/ val.type = "nil"
  \/ val.type = "time.Time" /\ val.v = ZeroInstant

\* C23: a null value and the zero instant are the empty field in CSV and
\* the keyword NULL in SQL; every other instant is its YYYY-MM-DD HH:MM:SS
\* text (quoted in SQL); a boolean is true/false in CSV and 1/0 in SQL.
C23_NullAndZeroInstant ==
  /\ (format.pc = "call" /\ format.csvDone)
       => /\ NullOrZeroInstant(format.val) => format.csvText = <<>>
          /\ (format.val.type = "time.Time" /\ ~NullOrZeroInstant(format.val))
               => IsDateTimeTextOf(format.csvText, format.val.v)
          /\ format.val.type = "bool"
               => format.csvText = IF format.val.v THEN <<"t", "r", "u", "e">>
                                   ELSE <<"f", "a", "l", "s", "e">>
  /\ (format.pc = "call" /\ format.sqlDone)
       => /\ NullOrZeroInstant(format.val) => format.sqlText = <<"N", "U", "L", "L">>
          /\ (format.val.type = "time.Time" /\ ~NullOrZeroInstant(format.val))
               => /\ Len(format.sqlText) = 21
                  /\ format.sqlText[1] = "'" /\ format.sqlText[21] = "'"
                  /\ IsDateTimeTextOf(SubSeq(format.sqlText, 2, 20), format.val.v)
          /\ format.val.type = "bool"
               => format.sqlText = IF format.val.v THEN <<"1">> ELSE <<"0">>
C23_Witness ==
  /\ format.pc = "call" /\ format.csvDone /\ format.sqlDone
  /\ format.val.type = "time.Time" /\ format.val.v = ZeroInstant
  /\ format.csvText = <<>> /\ format.sqlText = <<"N", "U", "L", "L">>

\* ============================================ archiveTable, further claims
\* The places of the statements of run r that are op on the tables on.
PlacesOf(r, op, on) ==
  {i \in DOMAIN issued[r] : issued[r][i].op = op /\ issued[r][i].on = on}
\* The statements of the steps create, copy, verify, delete, the two
\* renames and the two exports, each with the tables it is on.
PipelineOperations ==
  {<<"CREATE TABLE", <<newTableName>>>>, <<"INSERT SELECT", <<newTableName, Table>>>>,
   <<"COUNT", <<newTableName>>>>, <<"DELETE", <<Table>>>>,
   <<"RENAME", <<Table, archiveTableName>>>>, <<"RENAME", <<newTableName, Table>>>>,
   <<"EXPORT SQL", <<archiveTableName>>>>, <<"EXPORT CSV", <<archiveTableName>>>>}
AttemptedAtMostOnce(r) ==
  \A o \in PipelineOperations : Cardinality(PlacesOf(r, o[1], o[2])) <= 1
\* The failed statement at place i of run r is the last statement of the
\* run, or the failed copy followed by the DROP as the last statement.
FailureEndsRun(r, i) ==
  \/ i = Len(issued[r])
  \/ /\ issued[r][i].op = "INSERT SELECT"
     /\ i + 1 = Len(issued[r])
     /\ issued[r][i + 1].op = "DROP TABLE"
\* The DROP of the new table is issued after a failed copy and only then.
DropExactlyAfterFailedCopy(r) ==
  /\ \A i \in DOMAIN issued[r] :
       issued[r][i].op = "DROP TABLE"
         => /\ i > 1
            /\ issued[r][i - 1].op = "INSERT SELECT"
            /\ ~issued[r][i - 1].ok
            /\ issued[r][i].on = <<newTableName>>
  /\ (Failed(r, "INSERT SELECT") /\ pc[r] = "done") => Issued(r, "DROP TABLE")
  /\ Cardinality({i \in DOMAIN issued[r] : issued[r][i].op = "DROP TABLE"}) <= 1

\* C24 as stated: each operation is attempted at most once, the failure of
\* any of them, an export included, ends the run at once, and the DROP of
\* the new table is issued exactly after a failed copy.
C24_AnyFailureEndsRun ==
  /\ AttemptedAtMostOnce(MainRun)
  /\ \A i \in DOMAIN issued[MainRun] :
       (~issued[MainRun][i].ok) => FailureEndsRun(MainRun, i)
  /\ DropExactlyAfterFailedCopy(MainRun)

\* C24 amended: each operation is attempted at most once; the failure of
\* a statement before the exports, and a count mismatch, end the run at
\* once; a failed SQL export is followed by the CSV export when its flag
\* is set and by nothing else; the DROP of the new table is issued
\* exactly after a failed copy.
C24_NoRetry ==
  /\ AttemptedAtMostOnce(MainRun)
  /\ \A i \in DOMAIN issued[MainRun] :
       (~issued[MainRun][i].ok)
         => \/ FailureEndsRun(MainRun, i)
            \/ /\ issued[MainRun][i].op = "EXPORT SQL"
               /\ config[MainRun].ExportCSV
               /\ i + 1 = Len(issued[MainRun])
               /\ issued[MainRun][i + 1].op = "EXPORT CSV"
  /\ (\E i \in DOMAIN issued[MainRun] :
        ~issued[MainRun][i].ok /\ issued[MainRun][i].op \notin ExportStatements)
       => pc[MainRun] \in {"done", "dropNewTable"} /\ ret[MainRun] # "nil"
  /\ ret[MainRun] = "record count mismatch"
       => issued[MainRun][Len(issued[MainRun])].op = "COUNT"
  /\ DropExactlyAfterFailedCopy(MainRun)
C24_Witness ==
  /\ ret[MainRun] = "failed to delete old records"
  /\ Exists(db, newTableName)
  /\ ~Issued(MainRun, "DROP TABLE")
  /\ Len(issued[MainRun]) = 8

\* The line archiveTable logs when the copy fails (line 303).
CopyFailureLine == <<"ERROR", "Failed to copy records, dropping new table">>
\* Run r has logged an error or a warning other than the copy failure.
SecondaryFailureLogged(r) ==
  \E i \in DOMAIN logged[r] :
    /\ logged[r][i][1] \in {"ERROR", "WARNING"}
    /\ logged[r][i] # CopyFailureLine

\* C25: when the copy fails and the DROP of the new table fails too, the
\* failure of the DROP is logged, the run returns the copy failure, and
\* nothing more is done to the tables.
C25_DropFailureLogged ==
  (pc[MainRun] = "done" /\ Failed(MainRun, "DROP TABLE"))
    => /\ ret[MainRun] = "failed to copy records"
       /\ issued[MainRun][Len(issued[MainRun])].op = "DROP TABLE"
       /\ SecondaryFailureLogged(MainRun)

\* ============================================== the exporters, paging
\* The offsets 0, B, 2B, ... of the floor(N/B)+1 page queries of a table
\* of n rows with page size b.
PageOffsets(n, b) == [k \in 1..((n \div b) + 1) |-> (k - 1) * b]
SQLQueryOffsets == [i \in DOMAIN sql.queries |-> sql.queries[i].offset]

\* C26: for a table of N rows that does not change and page size B, each
\* exporter issues its page queries at the offsets 0, B, 2B, ..., never
\* one after a short page, and a finished export has issued exactly
\* floor(N/B)+1 of them.
C26_PageQueries ==
  /\ csv.pc # "idle"
       => /\ IsPrefix(csv.queries, PageOffsets(Len(csv.table), csvBatchSize))
          /\ (csv.pc = "done" /\ csv.ret = "nil")
               => csv.queries = PageOffsets(Len(csv.table), csvBatchSize)
  /\ sql.pc # "idle"
       => /\ IsPrefix(SQLQueryOffsets, PageOffsets(Len(sql.table), sqlBatchSize))
          /\ (sql.pc = "done" /\ sql.ret = "nil")
               => SQLQueryOffsets = PageOffsets(Len(sql.table), sqlBatchSize)

\* ============================================== archiveTable, the rows
\* The rows held by the three tables of a run together.
RowsHeld ==
  RowsOf(db, Table) \cup RowsOf(db, newTableName) \cup RowsOf(db, archiveTableName)

\* C27: in every state of a run, whatever failed and wherever the run
\* stopped, every row the table had before the run is in the table of the
\* original name, in the new table or in the archive table.
C27_NoRowLost == RowsOf(db0, Table) \subseteq RowsHeld
C27_Witness ==
  /\ pc[MainRun] = "renameOriginal"
  /\ RowsOf(db, Table) # RowsOf(db0, Table)
  /\ RowsOf(db, Table) # {}
  /\ RowsOf(db0, Table) \ RowsOf(db, Table) \subseteq RowsOf(db, newTableName)

\* ================================================ two runs, one table
\* Rows of the table in the specification of two runs at most.
MaxRowsTwoRuns == 2
\* A second run of the tool on the same table with the same start date:
\* its newTableName and archiveTableName are those of MainRun (lines
\* 259-261).
OtherRun == "run2"
TwoRuns == {MainRun, OtherRun}
\* Two runs that are not dry runs, started on the same table before
\* either has issued a statement.
InitTwoRuns ==
  /\ \E n \in 0..MaxRowsTwoRuns :
       /\ rowDate \in [1..n -> DateValues]
       /\ db = [t \in {Table} |-> 1..n]
  /\ db0 = db
  /\ dateColumns = {"created_at"}
  /\ \E e \in BOOLEAN :
       config = [r \in TwoRuns |-> [DryRun |-> FALSE, ExportSQL |-> e, ExportCSV |-> e]]
  /\ pc = [r \in TwoRuns |-> "getCreateTable"]
  /\ archiveCount = [r \in TwoRuns |-> 0]
  /\ keepCount = [r \in TwoRuns |-> 0]
  /\ cutoffCount = [r \in TwoRuns |-> 0]
  /\ cutoffDate = [r \in TwoRuns |-> 0]
  /\ issued = [r \in TwoRuns |-> <<>>]
  /\ ret = [r \in TwoRuns |-> "running"]
  /\ logged = [r \in TwoRuns |-> <<>>]
  /\ det = Idle /\ ddl = Idle /\ csv = Idle /\ sql = Idle /\ format = Idle
\* One statement of either run: the runs are sequential or interleaved.
NextTwoRuns == \E r \in TwoRuns : archiveTable(r)
SpecTwoRuns == InitTwoRuns /\ [][NextTwoRuns]_vars

FirstRenames(r) == PlacesOf(r, "RENAME", <<Table, archiveTableName>>)
FirstRenameSucceeded(r) == \E i \in FirstRenames(r) : issued[r][i].ok

\* C28: two runs on the same table with the same start date never both
\* swap: at most one of them succeeds with its first rename, and a run
\* issues its first rename, the one that fails, only after its DELETE was
\* executed.
C28_NotBothSwapped ==
  /\ ~(Swapped(MainRun) /\ Swapped(OtherRun))
  /\ ~(FirstRenameSucceeded(MainRun) /\ FirstRenameSucceeded(OtherRun))
  /\ \A r \in TwoRuns : \A i \in FirstRenames(r) :
       /\ i > 1
       /\ issued[r][i - 1].op = "DELETE"
       /\ issued[r][i - 1].ok
C28_Witness ==
  /\ Swapped(MainRun)
  /\ ret[OtherRun] = "failed to rename table"
  /\ Succeeded(OtherRun, "DELETE")
  /\ RowsOf(db, Table) = {}
  /\ RowsOf(db0, Table) # {}

====
